---------------------------- MODULE Spec2Model ----------------------------
(***************************************************************************)
(* Academic-records service (src/acad-service/main.py): six token-gated    *)
(* REST handlers over four relational tables, each handler running inside  *)
(* the get_db_connection context manager.                                  *)
(*                                                                         *)
(* Numbers: bobot (NUMERIC, e.g. 4.0) and ips (rounded to 2 decimals) are  *)
(* held in hundredths, so 4.0 is 400 and 3.67 is 367.                      *)
(***************************************************************************)
EXTENDS Integers, Sequences, FiniteSets, Bags, TLC

(***************************************************************************)
(* Bounds of the model.                                                    *)
(***************************************************************************)
\* rows the krs table may hold
MaxKrs == 2
\* semesters a KRS request may name: 1..MaxSemester
MaxSemester == 1

\* the workers that serve requests side by side on one database
Reqs == {"w1", "w2"}

(***************************************************************************)
(* Input domains of the requests.                                          *)
(***************************************************************************)
Nims == {"S1", "S2"}
Kodes == {"C1", "C2"}
Namas == {"Ani"}
Jurusans == {"TI"}
Angkatans == {2024}
NamaMKs == {"Algoritma"}
SksValues == {-1, 0, 2, 3}
Nilais == {"A", "B", "Z"}
Semesters == 1..MaxSemester

\* the Authorization header: absent (Header(None)), empty, or space-separated words
NoHeader == [given |-> FALSE, words |-> <<>>]
EmptyHeader == [given |-> TRUE, words |-> <<>>]
Authorizations ==
    {NoHeader, EmptyHeader,
     [given |-> TRUE, words |-> <<"Bearer">>],
     [given |-> TRUE, words |-> <<"Bearer", "expired">>],
     [given |-> TRUE, words |-> <<"Bearer", "good">>]}

ReadEndpoints == {"get_ips_detail", "get_all_mahasiswa", "get_all_matakuliah"}
WriteEndpoints == {"add_mahasiswa", "add_matakuliah", "add_krs"}
Endpoints == ReadEndpoints \cup WriteEndpoints

\* collation of the identifiers and names the queries order by
Collate(s) ==
    CASE s = "S1" -> 1 [] s = "S2" -> 2
      [] s = "C1" -> 1 [] s = "C2" -> 2
      [] s = "Algoritma" -> 1
      [] OTHER -> 0

(***************************************************************************)
(* State.                                                                  *)
(***************************************************************************)
VARIABLES
    mahasiswa,    \* committed rows of table mahasiswa
    mata_kuliah,  \* committed rows of table mata_kuliah
    krs,          \* committed rows of table krs (a bag: no uniqueness)
    bobot_nilai,  \* committed rows of table bobot_nilai
    pc,           \* per request: position in its handler
    ep,           \* per request: the endpoint it addresses
    data,         \* per request: path parameter / body
    auth,         \* per request: the Authorization header it carried
    conn,         \* per request: its connection: "none", "open", "closed"
    opens,        \* per request: psycopg2.connect calls that returned
    closes,       \* per request: conn.close() calls
    txn,          \* per request: rows inserted in its open transaction
    done,         \* per request: how its transaction ended
    exc,          \* per request: the exception in flight
    local,        \* per request: the handler's local variables
    resp          \* per request: the response sent

db == <<mahasiswa, mata_kuliah, krs, bobot_nilai>>
vars == <<mahasiswa, mata_kuliah, krs, bobot_nilai,
          pc, ep, data, auth, conn, opens, closes, txn, done, exc, local, resp>>

NoExc == [kind |-> "none", status |-> 0, detail |-> ""]
HTTPException(code, text) == [kind |-> "HTTPException", status |-> code, detail |-> text]
DBError(text) == [kind |-> "psycopg2.Error", status |-> 0, detail |-> text]

NoData == [nim |-> ""]
NoLocal == [student |-> <<>>, ret |-> <<>>]
NoResp == [status |-> 0, body |-> <<>>]

\* the seeded grade-weight table, in hundredths
SeedBobot == {[nilai |-> "A", bobot |-> 400], [nilai |-> "B", bobot |-> 300]}

Init ==
    /\ mahasiswa = {}
    /\ mata_kuliah = {}
    /\ krs = EmptyBag
    /\ bobot_nilai = SeedBobot
    /\ pc = [r \in Reqs |-> "idle"]
    /\ ep = [r \in Reqs |-> "none"]
    /\ data = [r \in Reqs |-> NoData]
    /\ auth = [r \in Reqs |-> NoHeader]
    /\ conn = [r \in Reqs |-> "none"]
    /\ opens = [r \in Reqs |-> 0]
    /\ closes = [r \in Reqs |-> 0]
    /\ txn = [r \in Reqs |-> {}]
    /\ done = [r \in Reqs |-> "none"]
    /\ exc = [r \in Reqs |-> NoExc]
    /\ local = [r \in Reqs |-> NoLocal]
    /\ resp = [r \in Reqs |-> NoResp]

(***************************************************************************)
(* verify_token                                                            *)
(***************************************************************************)
\* jwt.decode(token, JWT_SECRET, algorithms=["HS256"]): the tokens it accepts
ValidTokens == {"good"}

\* variant: a request without the header is let through as anonymous
verify_token_anonymous(authorization) ==
    IF ~authorization.given \/ authorization.words = <<>>
    THEN NoExc
    ELSE IF Len(authorization.words) < 2
              \/ authorization.words[2] \notin ValidTokens
         THEN HTTPException(401, "Invalid or Expired Token")
         ELSE NoExc

verify_token(authorization) ==
    IF ~authorization.given \/ authorization.words = <<>>
    THEN HTTPException(401, "Missing Authorization Header")
    ELSE IF Len(authorization.words) < 2
              \/ authorization.words[2] \notin ValidTokens
         THEN HTTPException(401, "Invalid or Expired Token")
         ELSE NoExc


(***************************************************************************)
(* The request bodies FastAPI accepts (pydantic models) and path params.   *)
(***************************************************************************)
\* D holds the sets of values the clients draw their requests from (D.rows: the
\* number of krs rows up to which they send enrollments)
IpsInput(D) == {[nim |-> n] : n \in D.nims}

MahasiswaInput(D) ==
    {[nim |-> n, nama |-> a, jurusan |-> j, angkatan |-> y] :
        n \in D.nims, a \in Namas, j \in Jurusans, y \in Angkatans}

\* sks: int, with no further constraint
MataKuliahInput(D) ==
    {[kode_mk |-> k, nama_mk |-> a, sks |-> s] :
        k \in D.kodes, a \in NamaMKs, s \in D.sks}

KRSInput(D) ==
    {[nim |-> n, kode_mk |-> k, semester |-> t, nilai |-> g] :
        n \in D.nims, k \in D.kodes, t \in D.semesters, g \in D.nilais}

Inputs(e, D) ==
    CASE e = "get_ips_detail" -> IpsInput(D)
      [] e = "add_mahasiswa" -> MahasiswaInput(D)
      [] e = "add_matakuliah" -> MataKuliahInput(D)
      [] e = "add_krs" -> KRSInput(D)
      [] OTHER -> {NoData}

\* the handler's first statement inside "with get_db_connection() as conn"
FirstStatement(e) ==
    CASE e = "get_ips_detail" -> "select_student"
      [] e = "add_krs" -> "select_nilai"
      [] e \in {"add_mahasiswa", "add_matakuliah"} -> "insert"
      [] OTHER -> "select_all"

(***************************************************************************)
(* Exceptions and responses.                                               *)
(***************************************************************************)
\* str(e): starlette renders an HTTPException as "<status>: <detail>"
Str(e) ==
    IF e.kind = "HTTPException"
    THEN <<ToString(e.status), ": ", e.detail>>
    ELSE <<e.detail>>

\* "except Exception as e: raise HTTPException(status_code=500, detail=str(e))"
handler_except(e) == [kind |-> "HTTPException", status |-> 500, detail |-> Str(e)]

\* FastAPI's rendering of an HTTPException that leaves the handler
ErrorResponse(e) == [status |-> e.status, body |-> [detail |-> e.detail]]

InFlight(r) == pc[r] \notin {"idle", "answered"}

\* the krs rows stored or about to be stored by requests in flight
KrsLoad(r) ==
    BagCardinality(krs)
    + Cardinality({q \in Reqs \ {r} : InFlight(q) /\ ep[q] = "add_krs"})

Reset(r) ==
    /\ conn' = [conn EXCEPT ![r] = "none"]
    /\ opens' = [opens EXCEPT ![r] = 0]
    /\ closes' = [closes EXCEPT ![r] = 0]
    /\ txn' = [txn EXCEPT ![r] = {}]
    /\ done' = [done EXCEPT ![r] = "none"]
    /\ exc' = [exc EXCEPT ![r] = NoExc]
    /\ local' = [local EXCEPT ![r] = NoLocal]

(***************************************************************************)
(* A request arrives on slot r; FastAPI resolves Depends(verify_token)     *)
(* before it calls the handler.                                            *)
(***************************************************************************)
Receive(r, D) ==
    /\ pc[r] = "idle"
    /\ \E e \in Endpoints : \E d \in Inputs(e, D) : \E a \in D.authorizations :
        /\ e = "add_krs" => KrsLoad(r) < D.rows
        /\ ep' = [ep EXCEPT ![r] = e]
        /\ data' = [data EXCEPT ![r] = d]
        /\ auth' = [auth EXCEPT ![r] = a]
        /\ LET v == verify_token(a) IN
            IF v.kind = "HTTPException"
            THEN /\ pc' = [pc EXCEPT ![r] = "answered"]
                 /\ resp' = [resp EXCEPT ![r] = ErrorResponse(v)]
            ELSE /\ pc' = [pc EXCEPT ![r] = "connect"]
                 /\ resp' = [resp EXCEPT ![r] = NoResp]
    /\ UNCHANGED <<db, conn, opens, closes, txn, done, exc, local>>

\* the response has been sent: the worker is free for the next request
Finish(r) ==
    /\ pc[r] = "answered"
    /\ pc' = [pc EXCEPT ![r] = "idle"]
    /\ ep' = [ep EXCEPT ![r] = "none"]
    /\ data' = [data EXCEPT ![r] = NoData]
    /\ auth' = [auth EXCEPT ![r] = NoHeader]
    /\ resp' = [resp EXCEPT ![r] = NoResp]
    /\ Reset(r)
    /\ UNCHANGED db

(***************************************************************************)
(* get_db_connection                                                       *)
(***************************************************************************)
\* an exception raised inside the "with" block: control goes to the
\* generator's "except Exception" clause
Raise(r, e) ==
    /\ exc' = [exc EXCEPT ![r] = e]
    /\ pc' = [pc EXCEPT ![r] = "rollback"]

\* conn = psycopg2.connect(**DB_CONFIG), before the generator's try block
get_db_connection_connect(r) ==
    /\ pc[r] = "connect"
    /\ \E ok \in BOOLEAN :
        IF ok
        THEN /\ conn' = [conn EXCEPT ![r] = "open"]
             /\ opens' = [opens EXCEPT ![r] = @ + 1]
             /\ pc' = [pc EXCEPT ![r] = FirstStatement(ep[r])]
             /\ UNCHANGED <<exc, resp>>
        ELSE /\ exc' = [exc EXCEPT ![r] = DBError("could not connect")]
             /\ pc' = [pc EXCEPT ![r] = "answered"]
             /\ resp' = [resp EXCEPT ![r] =
                            ErrorResponse(handler_except(DBError("could not connect")))]
             /\ UNCHANGED <<conn, opens>>
    /\ UNCHANGED <<db, ep, data, auth, closes, txn, done, local>>

\* the rows of a transaction, by table
Written(t, table) == {w.row : w \in {x \in t : x.table = table}}

RECURSIVE AddAll(_, _)
AddAll(B, S) ==
    IF S = {} THEN B
    ELSE LET x == CHOOSE y \in S : TRUE
             B1 == IF x \in DOMAIN B THEN [B EXCEPT ![x] = @ + 1] ELSE B @@ (x :> 1)
         IN AddAll(B1, S \ {x})

\* conn.commit() after the with-block completed normally
get_db_connection_commit(r) ==
    /\ pc[r] = "commit"
    /\ \E ok \in BOOLEAN :
        IF ok
        THEN /\ mahasiswa' = mahasiswa \cup Written(txn[r], "mahasiswa")
             /\ mata_kuliah' = mata_kuliah \cup Written(txn[r], "mata_kuliah")
             /\ krs' = AddAll(krs, Written(txn[r], "krs"))
             /\ txn' = [txn EXCEPT ![r] = {}]
             /\ done' = [done EXCEPT ![r] = "committed"]
             /\ pc' = [pc EXCEPT ![r] = "close"]
             /\ UNCHANGED exc
        ELSE /\ Raise(r, DBError("commit failed"))
             /\ UNCHANGED <<mahasiswa, mata_kuliah, krs, txn, done>>
    /\ UNCHANGED <<bobot_nilai, ep, data, auth, conn, opens, closes, local, resp>>

\* variant: the except clause calls conn.commit() where it should roll back
get_db_connection_rollback_commits(r) ==
    /\ pc[r] = "rollback"
    /\ mahasiswa' = mahasiswa \cup Written(txn[r], "mahasiswa")
    /\ mata_kuliah' = mata_kuliah \cup Written(txn[r], "mata_kuliah")
    /\ krs' = AddAll(krs, Written(txn[r], "krs"))
    /\ txn' = [txn EXCEPT ![r] = {}]
    /\ done' = [done EXCEPT ![r] = "committed"]
    /\ pc' = [pc EXCEPT ![r] = "close"]
    /\ UNCHANGED <<bobot_nilai, ep, data, auth, conn, opens, closes, exc, local, resp>>

\* variant: no finally clause, so an exception leaves the generator before close()
get_db_connection_rollback_leaks(r) ==
    /\ pc[r] = "rollback"
    /\ txn' = [txn EXCEPT ![r] = {}]
    /\ done' = [done EXCEPT ![r] = "rolledback"]
    /\ pc' = [pc EXCEPT ![r] = "answered"]
    /\ resp' = [resp EXCEPT ![r] = ErrorResponse(handler_except(exc[r]))]
    /\ UNCHANGED <<db, ep, data, auth, conn, opens, closes, exc, local>>

\* except Exception as e: conn.rollback(); raise e
get_db_connection_rollback(r) ==
    /\ pc[r] = "rollback"
    /\ txn' = [txn EXCEPT ![r] = {}]
    /\ \E ok \in BOOLEAN :
        IF ok
        THEN /\ done' = [done EXCEPT ![r] = "rolledback"]
             /\ UNCHANGED exc
        ELSE /\ done' = [done EXCEPT ![r] = "aborted"]
             /\ exc' = [exc EXCEPT ![r] = DBError("rollback failed")]
    /\ pc' = [pc EXCEPT ![r] = "close"]
    /\ UNCHANGED <<db, ep, data, auth, conn, opens, closes, local, resp>>

\* finally: conn.close(); then the handler returns or its except clause runs
get_db_connection_close(r) ==
    /\ pc[r] = "close"
    /\ conn' = [conn EXCEPT ![r] = "closed"]
    /\ closes' = [closes EXCEPT ![r] = @ + 1]
    /\ pc' = [pc EXCEPT ![r] = "answered"]
    /\ resp' = [resp EXCEPT ![r] =
                   IF exc[r] = NoExc
                   THEN [status |-> 200, body |-> local[r].ret]
                   ELSE ErrorResponse(handler_except(exc[r]))]
    /\ UNCHANGED <<db, ep, data, auth, opens, txn, done, exc, local>>

(***************************************************************************)
(* The storage layer: keys, locks and constraints of the four tables.      *)
(***************************************************************************)
\* an INSERT waits while another open transaction holds an uncommitted row
\* with the same primary key
InsertWaits(r, table, key) ==
    \E q \in Reqs \ {r} : \E w \in txn[q] :
        /\ w.table = table
        /\ (IF table = "mahasiswa" THEN w.row.nim ELSE w.row.kode_mk) = key

\* primary keys: mahasiswa.nim, mata_kuliah.kode_mk
PrimaryKeyTaken(table, key) ==
    IF table = "mahasiswa"
    THEN \E m \in mahasiswa : m.nim = key
    ELSE \E m \in mata_kuliah : m.kode_mk = key

\* foreign keys of krs: nim, kode_mk, nilai
ForeignKeysHold(row) ==
    /\ \E m \in mahasiswa : m.nim = row.nim
    /\ \E m \in mata_kuliah : m.kode_mk = row.kode_mk
    /\ \E b \in bobot_nilai : b.nilai = row.nilai

\* cursor.execute of a statement that changes no row and does not fail
Proceed(r, next) ==
    /\ pc' = [pc EXCEPT ![r] = next]
    /\ UNCHANGED exc

\* cursor.execute("INSERT ..."): the row joins the open transaction
Insert(r, table, row) ==
    /\ txn' = [txn EXCEPT ![r] = @ \cup {[table |-> table, row |-> row]}]
    /\ pc' = [pc EXCEPT ![r] = "commit"]
    /\ UNCHANGED exc

(***************************************************************************)
(* get_ips_detail                                                          *)
(***************************************************************************)
\* SELECT nim, nama, jurusan, angkatan FROM mahasiswa WHERE nim = %s; fetchone()
SelectStudent(nim) == {m \in mahasiswa : m.nim = nim}

\* variant: a student that is not found is created on the fly
get_ips_detail_student_creates(r) ==
    /\ pc[r] = "select_student"
    /\ IF SelectStudent(data[r].nim) = {}
       THEN LET row == [nim |-> data[r].nim, nama |-> "Ani", jurusan |-> "TI",
                        angkatan |-> 2024]
            IN /\ txn' = [txn EXCEPT ![r] = @ \cup {[table |-> "mahasiswa", row |-> row]}]
               /\ local' = [local EXCEPT ![r].student = row]
       ELSE /\ local' = [local EXCEPT ![r].student =
                             CHOOSE m \in SelectStudent(data[r].nim) : TRUE]
            /\ UNCHANGED txn
    /\ Proceed(r, "select_rows")
    /\ UNCHANGED <<db, ep, data, auth, conn, opens, closes, done, resp>>

get_ips_detail_student(r) ==
    /\ pc[r] = "select_student"
    /\ \E ok \in BOOLEAN :
        IF ~ok
        THEN Raise(r, DBError("query failed")) /\ UNCHANGED local
        ELSE IF SelectStudent(data[r].nim) = {}
             THEN /\ Raise(r, HTTPException(404, "Mahasiswa tidak ditemukan"))
                  /\ UNCHANGED local
             ELSE /\ Proceed(r, "select_rows")
                  /\ local' = [local EXCEPT ![r].student =
                                  CHOOSE m \in SelectStudent(data[r].nim) : TRUE]
    /\ UNCHANGED <<db, ep, data, auth, conn, opens, closes, txn, done, resp>>

\* krs k JOIN mata_kuliah mk ON k.kode_mk = mk.kode_mk
\*       JOIN bobot_nilai bn ON k.nilai = bn.nilai WHERE k.nim = %s
JoinRows(nim) ==
    LET T == {t \in BagToSet(krs) \X mata_kuliah \X bobot_nilai :
                /\ t[1].kode_mk = t[2].kode_mk
                /\ t[1].nilai = t[3].nilai
                /\ t[1].nim = nim}
    IN [t \in T |-> krs[t[1]]]

\* the select list: mk.kode_mk, mk.nama_mk, mk.sks, k.nilai, bn.bobot, k.semester
SelectList(t) ==
    <<t[2].kode_mk, t[2].nama_mk, t[2].sks, t[1].nilai, t[3].bobot, t[1].semester>>

\* ORDER BY k.semester ASC, mk.nama_mk ASC
Precedes(s, t) ==
    \/ s[1].semester < t[1].semester
    \/ /\ s[1].semester = t[1].semester
       /\ Collate(s[2].nama_mk) <= Collate(t[2].nama_mk)

RECURSIVE OrderBy(_)
OrderBy(J) ==
    IF DOMAIN J = {} THEN <<>>
    ELSE LET m == CHOOSE s \in DOMAIN J : \A t \in DOMAIN J : Precedes(s, t)
             rest == IF J[m] = 1
                     THEN [t \in DOMAIN J \ {m} |-> J[t]]
                     ELSE [J EXCEPT ![m] = @ - 1]
         IN <<SelectList(m)>> \o OrderBy(rest)

\* round(total_points / total_sks, 2), to the nearest hundredth, ties to even;
\* p is in hundredths and q > 0
Round2(p, q) ==
    LET f == p \div q
        twice == 2 * (p - f * q)
    IN IF twice < q THEN f
       ELSE IF twice > q THEN f + 1
       ELSE IF f % 2 = 0 THEN f ELSE f + 1

\* the loop "for r in rows" from row i on, with the accumulators in acc
RECURSIVE Accumulate(_, _, _)
Accumulate(rows, i, acc) ==
    IF i > Len(rows) THEN acc
    ELSE LET sks == rows[i][3]
             bobot == rows[i][5]
         IN Accumulate(rows, i + 1,
                [total_sks |-> acc.total_sks + sks,
                 total_points |-> acc.total_points + sks * bobot,
                 transcript |-> Append(acc.transcript,
                     [kode |-> rows[i][1], mata_kuliah |-> rows[i][2], sks |-> sks,
                      nilai |-> rows[i][4], bobot |-> bobot, semester |-> rows[i][6]])])

\* ips = round(total_points / total_sks, 2) if total_sks > 0 else 0.0
Ips(total_points, total_sks) ==
    IF total_sks > 0 THEN Round2(total_points, total_sks) ELSE 0

\* the value get_ips_detail returns for the fetched student and rows
IpsResult(student, rows) ==
    LET acc == Accumulate(rows, 1, [total_sks |-> 0, total_points |-> 0, transcript |-> <<>>])
    IN [nim |-> student.nim, nama |-> student.nama, prodi |-> student.jurusan,
        angkatan |-> student.angkatan, total_sks |-> acc.total_sks,
        ips |-> Ips(acc.total_points, acc.total_sks), transcript |-> acc.transcript]

get_ips_detail_rows(r) ==
    /\ pc[r] = "select_rows"
    /\ \E ok \in BOOLEAN :
        IF ~ok
        THEN Raise(r, DBError("query failed")) /\ UNCHANGED local
        ELSE /\ Proceed(r, "commit")
             /\ local' = [local EXCEPT ![r].ret =
                             IpsResult(local[r].student, OrderBy(JoinRows(data[r].nim)))]
    /\ UNCHANGED <<db, ep, data, auth, conn, opens, closes, txn, done, resp>>

(***************************************************************************)
(* add_mahasiswa, add_matakuliah, add_krs                                  *)
(***************************************************************************)
add_mahasiswa(r) ==
    /\ pc[r] = "insert" /\ ep[r] = "add_mahasiswa"
    /\ ~InsertWaits(r, "mahasiswa", data[r].nim)
    /\ \E ok \in BOOLEAN :
        IF ~ok
        THEN Raise(r, DBError("query failed")) /\ UNCHANGED <<txn, local>>
        ELSE IF PrimaryKeyTaken("mahasiswa", data[r].nim)
             THEN Raise(r, DBError("unique violation")) /\ UNCHANGED <<txn, local>>
             ELSE /\ Insert(r, "mahasiswa", data[r])
                  /\ local' = [local EXCEPT ![r].ret =
                                  [message |-> "Mahasiswa berhasil ditambahkan"]]
    /\ UNCHANGED <<db, ep, data, auth, conn, opens, closes, done, resp>>

add_matakuliah(r) ==
    /\ pc[r] = "insert" /\ ep[r] = "add_matakuliah"
    /\ ~InsertWaits(r, "mata_kuliah", data[r].kode_mk)
    /\ \E ok \in BOOLEAN :
        IF ~ok
        THEN Raise(r, DBError("query failed")) /\ UNCHANGED <<txn, local>>
        ELSE IF PrimaryKeyTaken("mata_kuliah", data[r].kode_mk)
             THEN Raise(r, DBError("unique violation")) /\ UNCHANGED <<txn, local>>
             ELSE /\ Insert(r, "mata_kuliah", data[r])
                  /\ local' = [local EXCEPT ![r].ret =
                                  [message |-> "Mata Kuliah berhasil ditambahkan"]]
    /\ UNCHANGED <<db, ep, data, auth, conn, opens, closes, done, resp>>

\* variant: the WHERE clause is missing, so any nilai finds a row
SelectNilaiAny(nilai) == bobot_nilai

\* SELECT nilai FROM bobot_nilai WHERE nilai = %s; fetchone()
SelectNilai(nilai) == {b \in bobot_nilai : b.nilai = nilai}

add_krs_check(r) ==
    /\ pc[r] = "select_nilai"
    /\ \E ok \in BOOLEAN :
        IF ~ok
        THEN Raise(r, DBError("query failed"))
        ELSE IF SelectNilai(data[r].nilai) = {}
             THEN Raise(r, HTTPException(400, "Nilai tidak valid"))
             ELSE Proceed(r, "insert")
    /\ UNCHANGED <<db, ep, data, auth, conn, opens, closes, txn, done, local, resp>>

add_krs_insert(r) ==
    /\ pc[r] = "insert" /\ ep[r] = "add_krs"
    /\ \E ok \in BOOLEAN :
        IF ~ok
        THEN Raise(r, DBError("query failed")) /\ UNCHANGED <<txn, local>>
        ELSE IF ~ForeignKeysHold(data[r])
             THEN Raise(r, DBError("foreign key violation")) /\ UNCHANGED <<txn, local>>
             ELSE /\ Insert(r, "krs", data[r])
                  /\ local' = [local EXCEPT ![r].ret =
                                  [message |-> "Data KRS berhasil ditambahkan"]]
    /\ UNCHANGED <<db, ep, data, auth, conn, opens, closes, done, resp>>

(***************************************************************************)
(* get_all_mahasiswa, get_all_matakuliah                                   *)
(***************************************************************************)
\* ORDER BY nim
RECURSIVE OrderByNim(_)
OrderByNim(S) ==
    IF S = {} THEN <<>>
    ELSE LET m == CHOOSE x \in S : \A y \in S : Collate(x.nim) <= Collate(y.nim)
         IN <<m>> \o OrderByNim(S \ {m})

\* ORDER BY kode_mk
RECURSIVE OrderByKode(_)
OrderByKode(S) ==
    IF S = {} THEN <<>>
    ELSE LET m == CHOOSE x \in S : \A y \in S : Collate(x.kode_mk) <= Collate(y.kode_mk)
         IN <<m>> \o OrderByKode(S \ {m})

get_all_mahasiswa(r) ==
    /\ pc[r] = "select_all" /\ ep[r] = "get_all_mahasiswa"
    /\ \E ok \in BOOLEAN :
        IF ~ok
        THEN Raise(r, DBError("query failed")) /\ UNCHANGED local
        ELSE /\ Proceed(r, "commit")
             /\ local' = [local EXCEPT ![r].ret = OrderByNim(mahasiswa)]
    /\ UNCHANGED <<db, ep, data, auth, conn, opens, closes, txn, done, resp>>

get_all_matakuliah(r) ==
    /\ pc[r] = "select_all" /\ ep[r] = "get_all_matakuliah"
    /\ \E ok \in BOOLEAN :
        IF ~ok
        THEN Raise(r, DBError("query failed")) /\ UNCHANGED local
        ELSE /\ Proceed(r, "commit")
             /\ local' = [local EXCEPT ![r].ret = OrderByKode(mata_kuliah)]
    /\ UNCHANGED <<db, ep, data, auth, conn, opens, closes, txn, done, resp>>

(***************************************************************************)
(* The service.                                                            *)
(***************************************************************************)
\* the steps of a handler that has been called
Handler(r) ==
    \/ get_db_connection_connect(r)
    \/ get_ips_detail_student(r)
    \/ get_ips_detail_rows(r)
    \/ add_mahasiswa(r)
    \/ add_matakuliah(r)
    \/ add_krs_check(r)
    \/ add_krs_insert(r)
    \/ get_all_mahasiswa(r)
    \/ get_all_matakuliah(r)
    \/ get_db_connection_commit(r)
    \/ get_db_connection_rollback(r)
    \/ get_db_connection_close(r)

Step(r, D) ==
    \/ Receive(r, D)
    \/ Handler(r)
    \/ Finish(r)

\* one worker, requests drawn from the whole input domain
AllInputs ==
    [nims |-> Nims, kodes |-> Kodes, sks |-> SksValues, nilais |-> Nilais,
     semesters |-> Semesters, authorizations |-> Authorizations, rows |-> MaxKrs]

Next == Step("w1", AllInputs)

Spec == Init /\ [][Next]_vars

\* two workers interleaving statement by statement, on a narrower input domain
FewInputs ==
    [nims |-> {"S1"}, kodes |-> {"C1"}, sks |-> {0, 2}, nilais |-> {"A", "Z"},
     semesters |-> Semesters,
     authorizations |-> {NoHeader, [given |-> TRUE, words |-> <<"Bearer", "expired">>],
                         [given |-> TRUE, words |-> <<"Bearer", "good">>]},
     rows |-> MaxKrs]

NextConcurrent == \E r \in Reqs : Step(r, FewInputs)

SpecConcurrent == Init /\ [][NextConcurrent]_vars

\* two workers whose handlers, once called, keep running: the handlers are
\* straight-line code without await, and a waiting INSERT is woken when the
\* transaction it waits for ends (strong fairness: no later request overtakes it)
FairInputs ==
    [nims |-> {"S1"}, kodes |-> {"C1"}, sks |-> {2}, nilais |-> {"A", "Z"},
     semesters |-> {1},
     authorizations |-> {NoHeader, [given |-> TRUE, words |-> <<"Bearer", "good">>]},
     rows |-> MaxKrs - 1]

NextFair == \E r \in Reqs : Step(r, FairInputs)

SpecFair == Init /\ [][NextFair]_vars /\ \A r \in Reqs : SF_vars(Handler(r))

(***************************************************************************)
(* Vocabulary of the properties.                                           *)
(***************************************************************************)
Answered(r, e) == pc[r] = "answered" /\ ep[r] = e

\* the request passed verify_token
Authorized(r) == verify_token(auth[r]).kind = "none"

\* no call to the storage layer failed during the request
StorageWorked(r) == exc[r].kind # "psycopg2.Error"

\* worker r takes the step, as part of a request to endpoint e
StepsFor(r, e) ==
    /\ pc'[r] # pc[r]
    /\ (IF pc[r] = "idle" THEN ep'[r] ELSE ep[r]) = e

KnownNilai == {b.nilai : b \in bobot_nilai}

RECURSIVE MaxOf(_)
MaxOf(S) ==
    LET x == CHOOSE y \in S : TRUE
    IN IF S = {x} THEN x
       ELSE LET m == MaxOf(S \ {x}) IN IF x > m THEN x ELSE m

\* the largest bobot of the grade-weight table
MaxBobot == MaxOf({b.bobot : b \in bobot_nilai})

\* the enrollment rows of a student, with the credit and weight each refers to
RowsOf(nim) == {k \in BagToSet(krs) : k.nim = nim}
CreditOf(k) == (CHOOSE m \in mata_kuliah : m.kode_mk = k.kode_mk).sks
WeightOf(k) == (CHOOSE b \in bobot_nilai : b.nilai = k.nilai).bobot

RECURSIVE SumCredits(_)
SumCredits(S) ==
    IF S = {} THEN 0
    ELSE LET k == CHOOSE x \in S : TRUE
         IN krs[k] * CreditOf(k) + SumCredits(S \ {k})

RECURSIVE SumPoints(_)
SumPoints(S) ==
    IF S = {} THEN 0
    ELSE LET k == CHOOSE x \in S : TRUE
         IN krs[k] * CreditOf(k) * WeightOf(k) + SumPoints(S \ {k})

Abs(x) == IF x < 0 THEN -x ELSE x

\* n hundredths is p / q rounded to 2 decimals (a tie going to the even digit)
IsRounded(n, p, q) ==
    LET d == Abs(n * q - p)
    IN 2 * d < Abs(q) \/ (2 * d = Abs(q) /\ n % 2 = 0)

\* the transcript agrees with the weighted average of the student's stored rows
WeightedAverage(body, nim) ==
    LET credits == SumCredits(RowsOf(nim))
        points == SumPoints(RowsOf(nim))
    IN /\ body.total_sks = credits
       /\ IF RowsOf(nim) = {}
          THEN body.ips = 0 /\ body.total_sks = 0
          ELSE credits # 0 /\ IsRounded(body.ips, points, credits)

(***************************************************************************)
(* C1: a token-authorized GET /api/acad/ips/{nim} for a nim with no        *)
(* Student record, the storage layer working, is answered 404.             *)
(***************************************************************************)
C1_NotFound ==
    \A r \in Reqs :
        ( /\ Answered(r, "get_ips_detail")
          /\ Authorized(r)
          /\ StorageWorked(r)
          /\ SelectStudent(data[r].nim) = {} )
        => resp[r].status = 404

(***************************************************************************)
(* C2: a token-authorized POST /api/acad/krs whose nilai is not in the     *)
(* grade-weight table, the storage layer working, is answered 400 and      *)
(* commits nothing.                                                        *)
(***************************************************************************)
C2_ValidationError ==
    \A r \in Reqs :
        ( /\ Answered(r, "add_krs")
          /\ Authorized(r)
          /\ StorageWorked(r)
          /\ data[r].nilai \notin KnownNilai )
        => resp[r].status = 400 /\ done[r] # "committed"

(***************************************************************************)
(* C3: a request to any of the six protected endpoints that carries no     *)
(* Authorization header is answered 401 at once; it never holds a          *)
(* connection, never reaches a statement, has no transaction, and the      *)
(* steps taken for it leave the four tables as they were.                  *)
(***************************************************************************)
C3_NoHeaderState ==
    \A r \in Reqs :
        (pc[r] # "idle" /\ ~auth[r].given)
        => /\ pc[r] = "answered"
           /\ resp[r].status = 401
           /\ conn[r] = "none" /\ opens[r] = 0
           /\ txn[r] = {} /\ done[r] = "none"

C3_NoHeaderStep ==
    \A r \in Reqs :
        ( \/ pc[r] = "idle" /\ pc'[r] # "idle" /\ ~auth'[r].given
          \/ pc[r] # "idle" /\ pc'[r] # pc[r] /\ ~auth[r].given )
        => db' = db

\* C3: both halves, the states and the steps of a request without the header
C3_NoHeader == []C3_NoHeaderState /\ [][C3_NoHeaderStep]_vars

C3_Witness ==
    \E r \in Reqs :
        /\ Answered(r, "add_krs") /\ ~auth[r].given
        /\ resp[r].status = 401
        /\ mahasiswa # {} /\ mata_kuliah # {}

(***************************************************************************)
(* C4: a successful transcript reports total_sks = the sum of the credits  *)
(* of the student's rows and ips = round(sum(credit * weight) /            *)
(* sum(credit), 2); with no rows it reports total_sks = 0 and ips = 0.0.   *)
(***************************************************************************)
C4_WeightedAverage ==
    \A r \in Reqs :
        (Answered(r, "get_ips_detail") /\ resp[r].status = 200)
        => WeightedAverage(resp[r].body, data[r].nim)

\* the same, for the states in which every stored course has a positive sks
C4_WhenCreditsPositive ==
    (\A m \in mata_kuliah : m.sks > 0) => C4_WeightedAverage

(***************************************************************************)
(* C5: the ips of a successful transcript lies in [0, max weight].         *)
(***************************************************************************)
C5_GpaInRange ==
    \A r \in Reqs :
        (Answered(r, "get_ips_detail") /\ resp[r].status = 200)
        => 0 <= resp[r].body.ips /\ resp[r].body.ips <= MaxBobot

(***************************************************************************)
(* C9: every stored course has a positive sks.                             *)
(***************************************************************************)
C9_SksPositive == \A m \in mata_kuliah : m.sks > 0

\* the row a write request asked for is in its table
Stored(r) ==
    CASE ep[r] = "add_mahasiswa" -> data[r] \in mahasiswa
      [] ep[r] = "add_matakuliah" -> data[r] \in mata_kuliah
      [] ep[r] = "add_krs" -> data[r] \in BagToSet(krs)
      [] OTHER -> FALSE

(***************************************************************************)
(* C6: a request is all-or-nothing.  The tables change only in the step in *)
(* which conn.commit() succeeds after a with-block that raised nothing,    *)
(* and then by exactly the rows of that transaction; once an exception is  *)
(* in flight (from the body, a rejected grade, a storage error or the      *)
(* commit) the request's rows are dropped and never reach the tables; a    *)
(* write endpoint answers 200 only when its row was committed.             *)
(***************************************************************************)
C6_State ==
    \A r \in Reqs :
        /\ (pc[r] = "answered" /\ ep[r] \in WriteEndpoints /\ resp[r].status = 200)
           => done[r] = "committed" /\ Stored(r)
        /\ (pc[r] = "answered" /\ resp[r].status # 200) => done[r] # "committed"
        /\ exc[r] # NoExc => done[r] # "committed"
        /\ pc[r] \in {"close", "answered"} => txn[r] = {}

C6_Step ==
    db' # db
    => \E r \in Reqs :
        /\ pc[r] = "commit" /\ exc[r] = NoExc
        /\ done'[r] = "committed" /\ exc'[r] = NoExc
        /\ mahasiswa' = mahasiswa \cup Written(txn[r], "mahasiswa")
        /\ mata_kuliah' = mata_kuliah \cup Written(txn[r], "mata_kuliah")
        /\ krs' = AddAll(krs, Written(txn[r], "krs"))
        /\ bobot_nilai' = bobot_nilai

\* C6: both halves, what an answered request has done and how the tables change
C6_AllOrNothing == []C6_State /\ [][C6_Step]_vars

\* one worker has committed a student and answered 200 while the other's
\* course was rolled back after its commit failed, and is not stored
C6_Witness ==
    \E r, q \in Reqs :
        /\ Answered(r, "add_mahasiswa") /\ resp[r].status = 200 /\ Stored(r)
        /\ Answered(q, "add_matakuliah") /\ resp[q].status = 500
        /\ exc[q] = DBError("commit failed") /\ done[q] = "rolledback"
        /\ ~Stored(q)

(***************************************************************************)
(* C7: a request opens at most one connection and closes it exactly once   *)
(* on every exit path: the connection is open only between connect and     *)
(* close, once the request is answered (after a normal return, an          *)
(* exception in the body, a failed commit or a failed rollback) every      *)
(* connection it opened has been closed once, and an open connection is    *)
(* eventually closed.                                                      *)
(***************************************************************************)
C7_State ==
    \A r \in Reqs :
        /\ opens[r] <= 1 /\ closes[r] <= opens[r]
        /\ conn[r] = "open" <=> (opens[r] = 1 /\ closes[r] = 0)
        /\ conn[r] = "open" => pc[r] \notin {"idle", "connect", "answered"}
        /\ pc[r] = "answered" => closes[r] = opens[r] /\ conn[r] # "open"

\* C7: closed exactly once by the time of the answer, and eventually closed
C7_Released ==
    /\ []C7_State
    /\ \A r \in Reqs : (conn[r] = "open") ~> (conn[r] = "closed")

\* a request whose commit failed and whose rollback failed too
C7_Witness ==
    \E r \in Reqs :
        /\ pc[r] = "answered" /\ ep[r] \in WriteEndpoints
        /\ exc[r] = DBError("rollback failed") /\ done[r] = "aborted"
        /\ conn[r] = "closed" /\ opens[r] = 1 /\ closes[r] = 1

(***************************************************************************)
(* C8: every krs row, stored or pending in a transaction, has a nilai of   *)
(* the grade-weight table; add_krs reaches its INSERT only with such a     *)
(* nilai; and the grade-weight table stays as seeded.                      *)
(***************************************************************************)
C8_GradesKnown ==
    /\ bobot_nilai = SeedBobot
    /\ \A k \in BagToSet(krs) : k.nilai \in KnownNilai
    /\ \A r \in Reqs :
        /\ \A row \in Written(txn[r], "krs") : row.nilai \in KnownNilai
        /\ (pc[r] = "insert" /\ ep[r] = "add_krs") => data[r].nilai \in KnownNilai

\* a row is stored, and a request with an unknown nilai has been turned away
\* while the other worker holds a pending krs row
C8_Witness ==
    \E r, q \in Reqs :
        /\ krs # EmptyBag
        /\ Answered(r, "add_krs") /\ data[r].nilai \notin KnownNilai /\ Authorized(r)
        /\ Written(txn[q], "krs") # {}

(***************************************************************************)
(* C10: the steps taken for GET ips/{nim}, GET mahasiswa and GET           *)
(* matakuliah leave the four tables unchanged, whatever the outcome, and   *)
(* such a request never has a row pending.                                 *)
(***************************************************************************)
C10_State ==
    \A r \in Reqs : ep[r] \in ReadEndpoints => txn[r] = {}

C10_Step ==
    \A r \in Reqs :
        (\E e \in ReadEndpoints : StepsFor(r, e)) => db' = db

\* C10: a read request has nothing pending and its steps change no table
C10_ReadOnly == []C10_State /\ [][C10_Step]_vars

\* a transcript served from stored rows, and a listing that failed
C10_Witness ==
    \E r, q \in Reqs :
        /\ Answered(r, "get_ips_detail") /\ resp[r].status = 200
        /\ resp[r].body.total_sks > 0
        /\ Answered(q, "get_all_mahasiswa") /\ resp[q].status = 500

=============================================================================
